---------------------------- MODULE Spec2Model ----------------------------
(***************************************************************************)
(* State-machine model of the two scripts of the repository:               *)
(*   change-disp-res.py : list_displays, identify_displays,                *)
(*                        change_resolution and the interactive main flow  *)
(*   play_video.py      : play_video and its command-line entry point      *)
(* The operating system (user32), the Tk toolkit, the user at the prompt   *)
(* and the VLC player are the environment: their answers are drawn from    *)
(* small sets.                                                             *)
(***************************************************************************)
EXTENDS Integers, Sequences, FiniteSets, TLC

(* ------------------------------ bounds -------------------------------- *)

\* Number of indices at which the OS enumeration may answer before it is
\* exhausted for good.
MaxDevices == 3

(* ------------------------- program constants -------------------------- *)

DM_PELSWIDTH == 524288

DM_PELSHEIGHT == 1048576

DISP_CHANGE_SUCCESSFUL == 0

CDS_TEST == 2

\* DISPLAY_DEVICE_ACTIVE, the mask tested against StateFlags
DISPLAY_DEVICE_ACTIVE == 1

\* the marker window's fixed size
win_w == 300

win_h == 300

\* the argument of SetProcessDpiAwareness
DpiPerMonitor == 2

(* ------------------------------ helpers ------------------------------- *)

RECURSIVE BitAnd(_, _)
\* Python's & on non-negative integers
BitAnd(a, b) ==
    IF a = 0 \/ b = 0 THEN 0
    ELSE (IF a % 2 = 1 /\ b % 2 = 1 THEN 1 ELSE 0) + 2 * BitAnd(a \div 2, b \div 2)

RECURSIVE BitOr(_, _)
\* Python's | on non-negative integers
BitOr(a, b) ==
    IF a = 0 THEN b
    ELSE IF b = 0 THEN a
    ELSE (IF a % 2 = 1 \/ b % 2 = 1 THEN 1 ELSE 0) + 2 * BitOr(a \div 2, b \div 2)

\* The device name the OS reports at enumeration index i: \\.\DISPLAY<i+1>
DeviceName(i) == <<"DISPLAY", i + 1>>

\* The human-readable description the OS reports at index i
DeviceString(i) == <<"Monitor", i + 1>>

Digit == ("0" :> 0) @@ ("1" :> 1) @@ ("2" :> 2) @@ ("3" :> 3) @@ ("4" :> 4) @@
         ("5" :> 5) @@ ("6" :> 6) @@ ("7" :> 7) @@ ("8" :> 8) @@ ("9" :> 9)

RECURSIVE LStrip(_)
LStrip(s) == IF s # <<>> /\ Head(s) = " " THEN LStrip(Tail(s)) ELSE s

RECURSIVE RStrip(_)
RStrip(s) ==
    IF s # <<>> /\ s[Len(s)] = " " THEN RStrip(SubSeq(s, 1, Len(s) - 1)) ELSE s

\* str.strip() on a string given as a sequence of characters
Strip(s) == RStrip(LStrip(s))

\* str.lower() on the characters the prompts are answered with
Lower(s) == [k \in 1..Len(s) |-> IF s[k] = "Y" THEN "y"
                                 ELSE IF s[k] = "N" THEN "n" ELSE s[k]]

RECURSIVE DigitsValue(_)
DigitsValue(s) ==
    IF s = <<>> THEN 0 ELSE 10 * DigitsValue(SubSeq(s, 1, Len(s) - 1)) + Digit[s[Len(s)]]

AllDigits(s) == s # <<>> /\ \A k \in 1..Len(s) : s[k] \in DOMAIN Digit

Unsigned(s) == IF s # <<>> /\ Head(s) \in {"-", "+"} THEN Tail(s) ELSE s

\* int(text) succeeds: optional blanks, optional sign, decimal digits
IntOk(s) == AllDigits(Unsigned(Strip(s)))

\* int(text) where it succeeds
IntOf(s) ==
    LET t == Strip(s)
    IN  IF t # <<>> /\ Head(t) = "-" THEN 0 - DigitsValue(Tail(t))
        ELSE DigitsValue(Unsigned(t))

(* ---------------------------- environment ----------------------------- *)

\* What EnumDisplayDevicesW may answer at one index: the call fails, or it
\* succeeds and fills StateFlags (bit 0 set for an active device).
EnumAnswers ==
    { [ok |-> FALSE, StateFlags |-> 0],
      [ok |-> TRUE,  StateFlags |-> 0],
      [ok |-> TRUE,  StateFlags |-> 1],
      [ok |-> TRUE,  StateFlags |-> 5] }

\* The mask of fields the OS reports as filled in a queried DEVMODE
\* (DM_POSITION, DM_BITSPERPEL, DM_PELSWIDTH, DM_PELSHEIGHT,
\*  DM_DISPLAYFLAGS, DM_DISPLAYFREQUENCY)
QueriedFields == 32 + 262144 + 524288 + 1048576 + 2097152 + 4194304

\* The display modes EnumDisplaySettingsW may report for a device
Modes ==
    { [dmFields |-> QueriedFields, dmPositionX |-> 0, dmPositionY |-> 0,
       dmBitsPerPel |-> 32, dmPelsWidth |-> 1920, dmPelsHeight |-> 1080,
       dmDisplayFrequency |-> 60],
      [dmFields |-> QueriedFields, dmPositionX |-> 0 - 1921, dmPositionY |-> 0 - 7,
       dmBitsPerPel |-> 16, dmPelsWidth |-> 201, dmPelsHeight |-> 101,
       dmDisplayFrequency |-> 75] }

\* A DEVMODE() as constructed by ctypes: zero-filled
ZeroMode ==
    [dmFields |-> 0, dmPositionX |-> 0, dmPositionY |-> 0, dmBitsPerPel |-> 0,
     dmPelsWidth |-> 0, dmPelsHeight |-> 0, dmDisplayFrequency |-> 0]

\* Answers of EnumDisplaySettingsW: failure, or success with a mode
QueryAnswers == {[ok |-> FALSE, mode |-> ZeroMode]} \cup {[ok |-> TRUE, mode |-> m] : m \in Modes}

\* Return codes of ChangeDisplaySettingsExW (DISP_CHANGE_SUCCESSFUL,
\* DISP_CHANGE_RESTART, DISP_CHANGE_FAILED, DISP_CHANGE_BADMODE)
ResultCodes == {0, 1, 0 - 1, 0 - 2}

\* What the user may type at "Identify displays? (y/n): "
IdentifyInputs == { <<"y">>, <<" ", "Y", " ">>, <<"n">>, <<>> }

DigitChar == <<"0", "1", "2", "3", "4", "5", "6", "7", "8", "9">>

\* What the user may type at "Select display (1-n): "
ChoiceInputs ==
    { <<DigitChar[k + 1]>> : k \in 0..(MaxDevices + 1) } \cup { <<"x">>, <<"-", "1">> }

\* What the user may type at "Enter desired width: "
WidthInputs == { <<"1", "2", "8", "0">>, <<" ", "8", "0", "0">>, <<"w">> }

\* What the user may type at "Enter desired height: "
HeightInputs == { <<"7", "2", "0">>, <<>> }

(* ------------------------------- state -------------------------------- *)

VARIABLES
    enumTable,        \* OS: the answer of EnumDisplayDevicesW at each index
    pc,               \* position of the main flow of change-disp-res.py
    index,            \* list_displays: index
    devices,          \* list_displays: devices
    enumQueries,      \* indices passed to EnumDisplayDevicesW, in call order
    display_names,    \* __main__: display_names
    i,                \* identify_displays: position of the enumerate() loop
    monitors,         \* identify_displays: monitors
    threadPc,         \* position of overlay_thread (show_overlays)
    dpiAwareness,     \* process DPI awareness
    rootAlive,        \* the Tk root exists
    windows,          \* show_overlays: windows, each with its label and geometry
    timerArmed,       \* root.after(...) has been called
    timerFired,       \* the after-callback close_all has started
    choice,           \* __main__: choice
    selected_device,  \* __main__: selected_device
    desired_width,    \* __main__: desired_width
    desired_height,   \* __main__: desired_height
    devmode,          \* change_resolution: devmode
    crArgs,           \* arguments of each invocation of change_resolution
    retval,           \* what change_resolution returned
    calls,            \* display-mode API calls, in order
    prompts,          \* input() prompts issued, in order
    out,              \* lines printed, in order
    ppc,              \* position of play_video.py
    argv,             \* sys.argv of play_video.py
    video_path,       \* play_video: video_path
    device_arg,       \* play_video: device_name as passed by the caller
    device_name,      \* play_video: device_name as used in the body
    instanceArgs,     \* arguments vlc.Instance was constructed with
    playerCalls,      \* calls made on the player before the first poll
    playerState,      \* VLC: the player's current state
    state,            \* play_video: state, the last status polled
    polled            \* the statuses the polls have observed

dispVars ==
    <<enumTable, pc, index, devices, enumQueries, display_names, i, monitors,
      threadPc, dpiAwareness, rootAlive, windows, timerArmed, timerFired,
      choice, selected_device, desired_width, desired_height, devmode, crArgs, retval,
      calls, prompts, out>>

playVars ==
    <<ppc, argv, video_path, device_arg, device_name, instanceArgs,
      playerCalls, playerState, state, polled>>

vars == <<dispVars, playVars>>

listVars == <<index, devices, enumQueries>>

identVars == <<i, monitors>>

uiVars == <<threadPc, dpiAwareness, rootAlive, windows, timerArmed, timerFired>>

crVars == <<devmode, crArgs, retval>>

mainVars == <<choice, selected_device, desired_width, desired_height>>

\* Sentinel for a Python name that is not bound yet
None == "None"

\* The integer names choice, desired_width and desired_height hold <<v>> once
\* bound to v and Unbound before
Unbound == <<>>

(* ----------------------- change-disp-res.py --------------------------- *)

\* EnumDisplayDevicesW(None, idx, ...) succeeds
EnumDisplayDevicesW(idx) == idx < Len(enumTable) /\ enumTable[idx + 1].ok

\* A bug: comparing StateFlags with the flag instead of masking it
IsActiveEquality(flags) == flags = DISPLAY_DEVICE_ACTIVE

\* display.StateFlags & 0x00000001
IsActive(flags) == BitAnd(flags, DISPLAY_DEVICE_ACTIVE) # 0

\* State of the script before its first statement
InitDisp ==
    /\ enumTable \in [1..MaxDevices -> EnumAnswers]
    /\ pc = "start"
    /\ index = 0
    /\ devices = <<>>
    /\ enumQueries = <<>>
    /\ display_names = <<>>
    /\ i = 0
    /\ monitors = <<>>
    /\ threadPc = "none"
    /\ dpiAwareness = 0
    /\ rootAlive = FALSE
    /\ windows = <<>>
    /\ timerArmed = FALSE
    /\ timerFired = FALSE
    /\ choice = Unbound
    /\ selected_device = None
    /\ desired_width = Unbound
    /\ desired_height = Unbound
    /\ devmode = ZeroMode
    /\ crArgs = <<>>
    /\ retval = None
    /\ calls = <<>>
    /\ prompts = <<>>
    /\ out = <<>>

\* print("Active displays:") and the call of list_displays()
Start ==
    /\ pc = "start"
    /\ out' = Append(out, <<"Active displays:">>)
    /\ pc' = "list_displays"
    /\ UNCHANGED <<enumTable, listVars, display_names, identVars, uiVars,
                   mainVars, crVars, calls, prompts, playVars>>

\* One iteration of the while-loop of list_displays
ListStep ==
    /\ pc = "list_displays"
    /\ enumQueries' = Append(enumQueries, index)
    /\ IF ~EnumDisplayDevicesW(index)
       THEN /\ display_names' = devices
            /\ pc' = "main_check"
            /\ UNCHANGED <<index, devices, out>>
       ELSE /\ IF IsActive(enumTable[index + 1].StateFlags)
               THEN /\ devices' = Append(devices, DeviceName(index))
                    /\ out' = Append(out, <<"  ", DeviceName(index), " - ", DeviceString(index)>>)
               ELSE UNCHANGED <<devices, out>>
            /\ index' = index + 1
            /\ UNCHANGED <<display_names, pc>>
    /\ UNCHANGED <<enumTable, identVars, uiVars,
                   mainVars, crVars, calls, prompts, playVars>>

RECURSIVE Listing(_, _)
\* The lines "  k. name" printed for the enumerated displays
Listing(names, k) ==
    IF k > Len(names) THEN <<>>
    ELSE <<<<"  ", k, ". ", names[k]>>>> \o Listing(names, k + 1)

\* if not display_names: ... else: the listing
MainCheck ==
    /\ pc = "main_check"
    /\ IF display_names = <<>>
       THEN /\ out' = Append(out, <<"No active displays found.">>)
            /\ pc' = "done"
       ELSE /\ out' = out \o <<<<>>>> \o Listing(display_names, 1) \o <<<<>>>>
            /\ pc' = "ask_identify"
    /\ UNCHANGED <<enumTable, listVars, display_names, identVars, uiVars,
                   mainVars, crVars, calls, prompts, playVars>>

\* identify = input("Identify displays? (y/n): ").strip().lower()
AskIdentify ==
    /\ pc = "ask_identify"
    /\ prompts' = Append(prompts, <<"Identify displays? (y/n): ">>)
    /\ \E text \in IdentifyInputs :
          IF Lower(Strip(text)) = <<"y">>
          THEN /\ pc' = "identify_loop"
               /\ i' = 1
               /\ monitors' = <<>>
          ELSE /\ pc' = "after_identify"
               /\ UNCHANGED identVars
    /\ UNCHANGED <<enumTable, listVars, display_names, uiVars,
                   mainVars, crVars, calls, out, playVars>>

\* One iteration of "for i, name in enumerate(display_names, 1)"
IdentifyQuery ==
    /\ pc = "identify_loop"
    /\ i <= Len(display_names)
    /\ \E ans \in QueryAnswers :
          /\ calls' = Append(calls, [fn |-> "identify_displays", api |-> "EnumDisplaySettingsW",
                                     dev |-> display_names[i], flags |-> None,
                                     mode |-> ans.mode, ret |-> ans.ok])
          /\ IF ans.ok
             THEN monitors' = Append(monitors,
                                     <<i, display_names[i], ans.mode.dmPositionX,
                                       ans.mode.dmPositionY, ans.mode.dmPelsWidth,
                                       ans.mode.dmPelsHeight>>)
             ELSE UNCHANGED monitors
    /\ i' = i + 1
    /\ UNCHANGED <<enumTable, pc, listVars, display_names, uiVars,
                   mainVars, crVars, prompts, out, playVars>>

\* if not monitors: return; else start overlay_thread and join it
IdentifyStart ==
    /\ pc = "identify_loop"
    /\ i > Len(display_names)
    /\ IF monitors = <<>>
       THEN /\ out' = Append(out, <<"No display positions found.">>)
            /\ pc' = "after_identify"
            /\ UNCHANGED threadPc
       ELSE /\ threadPc' = "started"
            /\ pc' = "join"
            /\ UNCHANGED out
    /\ UNCHANGED <<enumTable, listVars, display_names, identVars, dpiAwareness, rootAlive,
                   windows, timerArmed, timerFired,
                   mainVars, crVars, calls, prompts, playVars>>

RECURSIVE Str(_)
\* str(n) for n >= 0, as a sequence of characters
Str(n) == IF n < 10 THEN <<DigitChar[n + 1]>> ELSE Str(n \div 10) \o <<DigitChar[(n % 10) + 1]>>

\* A bug: division truncating toward zero, as C's / does
MarkerXTruncating(x, w) ==
    x + (IF w - win_w < 0 THEN 0 - ((win_w - w) \div 2) ELSE (w - win_w) \div 2)

\* cx = x + (w - win_w) // 2
MarkerX(x, w) == x + ((w - win_w) \div 2)

\* cy = y + (h - win_h) // 2
MarkerY(y, h) == y + ((h - win_h) \div 2)

\* f"{win_w}x{win_h}+{cx}+{cy}"
Geometry(cx, cy) == <<win_w, "x", win_h, "+", cx, "+", cy>>

\* A bug: the label shows the 0-based position
NewWindowZeroBased(m) ==
    [text |-> Str(m[1] - 1), overrideredirect |-> TRUE, topmost |-> TRUE,
     geometry |-> Geometry(MarkerX(m[3], m[5]), MarkerY(m[4], m[6])), alive |-> TRUE]

\* The Toplevel built for one entry of monitors
NewWindow(m) ==
    [text |-> Str(m[1]), overrideredirect |-> TRUE, topmost |-> TRUE,
     geometry |-> Geometry(MarkerX(m[3], m[5]), MarkerY(m[4], m[6])), alive |-> TRUE]

\* Tk's reading of a geometry "WxH+X+Y": size and the top-left corner
\* (a "+" offset is the distance of the left/top edge from the screen origin,
\* also when the number after it is negative)
WinSize(win) == <<win.geometry[1], win.geometry[3]>>

WinTopLeft(win) == <<win.geometry[5], win.geometry[7]>>

\* show_overlays up to the window loop: DPI awareness, root = tk.Tk(), withdraw
ThreadInit ==
    /\ threadPc = "started"
    /\ dpiAwareness' = DpiPerMonitor
    /\ rootAlive' = TRUE
    /\ windows' = <<>>
    /\ threadPc' = "create"
    /\ UNCHANGED <<enumTable, pc, listVars, display_names, identVars, timerArmed, timerFired,
                   mainVars, crVars, calls, prompts, out, playVars>>

\* One iteration of "for number, _, x, y, w, h in monitors"
CreateWindow ==
    /\ threadPc = "create"
    /\ Len(windows) < Len(monitors)
    /\ windows' = Append(windows, NewWindow(monitors[Len(windows) + 1]))
    /\ UNCHANGED <<enumTable, pc, listVars, display_names, identVars, threadPc, dpiAwareness,
                   rootAlive, timerArmed, timerFired,
                   mainVars, crVars, calls, prompts, out, playVars>>

\* root.after(duration * 1000, close_all); root.mainloop()
ArmTimer ==
    /\ threadPc = "create"
    /\ Len(windows) = Len(monitors)
    /\ timerArmed' = TRUE
    /\ threadPc' = "mainloop"
    /\ UNCHANGED <<enumTable, pc, listVars, display_names, identVars, dpiAwareness,
                   rootAlive, windows, timerFired,
                   mainVars, crVars, calls, prompts, out, playVars>>

\* The event loop runs the one-shot callback close_all
TimerFire ==
    /\ threadPc = "mainloop"
    /\ timerArmed
    /\ ~timerFired
    /\ timerFired' = TRUE
    /\ threadPc' = "close_all"
    /\ UNCHANGED <<enumTable, pc, listVars, display_names, identVars, dpiAwareness,
                   rootAlive, windows, timerArmed,
                   mainVars, crVars, calls, prompts, out, playVars>>

\* close_all: one iteration of "for win in windows: win.destroy()"
CloseWindow ==
    /\ threadPc = "close_all"
    /\ \E k \in 1..Len(windows) :
          /\ windows[k].alive
          /\ \A j \in 1..(k - 1) : ~windows[j].alive
          /\ windows' = [windows EXCEPT ![k].alive = FALSE]
    /\ UNCHANGED <<enumTable, pc, listVars, display_names, identVars, threadPc, dpiAwareness,
                   rootAlive, timerArmed, timerFired,
                   mainVars, crVars, calls, prompts, out, playVars>>

\* close_all: root.destroy(); mainloop returns and show_overlays ends
CloseRoot ==
    /\ threadPc = "close_all"
    /\ \A k \in 1..Len(windows) : ~windows[k].alive
    /\ rootAlive' = FALSE
    /\ threadPc' = "exited"
    /\ UNCHANGED <<enumTable, pc, listVars, display_names, identVars, dpiAwareness,
                   windows, timerArmed, timerFired,
                   mainVars, crVars, calls, prompts, out, playVars>>

\* A bug: the caller goes on once the thread was started, without joining
JoinReturnsAtOnce == threadPc # "none"

\* overlay_thread.join() returns: no timeout, so only once the thread is over
JoinReturns == threadPc = "exited"

\* overlay_thread.join() in identify_displays, after which it returns
Join ==
    /\ pc = "join"
    /\ JoinReturns
    /\ pc' = "after_identify"
    /\ UNCHANGED <<enumTable, listVars, display_names, identVars, uiVars,
                   mainVars, crVars, calls, prompts, out, playVars>>

\* print() after the identification step
AfterIdentify ==
    /\ pc = "after_identify"
    /\ out' = Append(out, <<>>)
    /\ pc' = "select"
    /\ UNCHANGED <<enumTable, listVars, display_names, identVars, uiVars,
                   mainVars, crVars, calls, prompts, playVars>>

\* A bug: the choice used as a 0-based index, which selects the next display
\* (and wraps to the first one past the end)
SelectedOffByOne(names, k) == names[(k % Len(names)) + 1]

\* display_names[choice - 1], the list being 0-based in the script and
\* 1-based here
Selected(names, k) == names[k]

\* choice = int(input(...)); if 1 <= choice <= len(display_names): ... else: ...
Select ==
    /\ pc = "select"
    /\ prompts' = Append(prompts, <<"Select display (1-", Len(display_names), "): ">>)
    /\ \E text \in ChoiceInputs :
          IF ~IntOk(text)
          THEN /\ pc' = "crashed"
               /\ UNCHANGED <<choice, selected_device, out>>
          ELSE IF 1 <= IntOf(text) /\ IntOf(text) <= Len(display_names)
          THEN /\ choice' = <<IntOf(text)>>
               /\ selected_device' = Selected(display_names, IntOf(text))
               /\ out' = Append(out, <<"Selected: ", Selected(display_names, IntOf(text))>>)
               /\ pc' = "width"
          ELSE /\ choice' = <<IntOf(text)>>
               /\ out' = Append(out, <<"Invalid selection.">>)
               /\ pc' = "done"
               /\ UNCHANGED selected_device
    /\ UNCHANGED <<enumTable, listVars, display_names, identVars, uiVars,
                   desired_width, desired_height, crVars, calls, playVars>>

\* desired_width = int(input("Enter desired width: "))
AskWidth ==
    /\ pc = "width"
    /\ prompts' = Append(prompts, <<"Enter desired width: ">>)
    /\ \E text \in WidthInputs :
          IF IntOk(text)
          THEN /\ desired_width' = <<IntOf(text)>>
               /\ pc' = "height"
          ELSE /\ pc' = "crashed"
               /\ UNCHANGED desired_width
    /\ UNCHANGED <<enumTable, listVars, display_names, identVars, uiVars,
                   choice, selected_device, desired_height, crVars, calls, out, playVars>>

\* desired_height = int(input("Enter desired height: ")) and the call
\* change_resolution(desired_width, desired_height, selected_device) up to
\* the construction of devmode
AskHeight ==
    /\ pc = "height"
    /\ prompts' = Append(prompts, <<"Enter desired height: ">>)
    /\ \E text \in HeightInputs :
          IF IntOk(text)
          THEN /\ desired_height' = <<IntOf(text)>>
               /\ crArgs' = Append(crArgs, [width |-> desired_width[1], height |-> IntOf(text),
                                            device_name |-> selected_device])
               /\ devmode' = ZeroMode
               /\ pc' = "cr_query"
          ELSE /\ pc' = "crashed"
               /\ UNCHANGED <<desired_height, crArgs, devmode>>
    /\ UNCHANGED <<enumTable, listVars, display_names, identVars, uiVars,
                   choice, selected_device, desired_width, retval, calls, out, playVars>>

\* A bug: the request built from a fresh DEVMODE, not from the queried one
SetFieldsOnFresh(dm, width, height) ==
    [ZeroMode EXCEPT !.dmPelsWidth = width,
                     !.dmPelsHeight = height,
                     !.dmFields = BitOr(DM_PELSWIDTH, DM_PELSHEIGHT)]

\* devmode.dmPelsWidth = width; devmode.dmPelsHeight = height;
\* devmode.dmFields = DM_PELSWIDTH | DM_PELSHEIGHT
\* (the fields are c_ulong: the widths and heights entered here are all in
\* 0 .. 2^31-1, where the stored value is the value assigned)
SetFields(dm, width, height) ==
    [dm EXCEPT !.dmPelsWidth = width,
               !.dmPelsHeight = height,
               !.dmFields = BitOr(DM_PELSWIDTH, DM_PELSHEIGHT)]

\* A bug: every non-negative code (DISP_CHANGE_RESTART too) taken as success
ValidateOkNonNegative(result) == result >= 0

\* "result != DISP_CHANGE_SUCCESSFUL" is false for the validate-only request
ValidateOk(result) == result = DISP_CHANGE_SUCCESSFUL

\* A bug: every non-negative code (DISP_CHANGE_RESTART too) taken as success
ApplyOkNonNegative(result) == result >= 0

\* "result == DISP_CHANGE_SUCCESSFUL" for the apply request
ApplyOk(result) == result = DISP_CHANGE_SUCCESSFUL

\* The arguments of the running invocation of change_resolution
CrWidth == crArgs[Len(crArgs)].width

CrHeight == crArgs[Len(crArgs)].height

CrDevice == crArgs[Len(crArgs)].device_name

\* change_resolution: EnumDisplaySettingsW(device_name, -1, byref(devmode)),
\* then the three field assignments
CrQuery ==
    /\ pc = "cr_query"
    /\ \E ans \in QueryAnswers :
          /\ calls' = Append(calls, [fn |-> "change_resolution", api |-> "EnumDisplaySettingsW",
                                     dev |-> CrDevice, flags |-> None,
                                     mode |-> ans.mode, ret |-> ans.ok])
          /\ IF ~ans.ok
             THEN /\ out' = Append(out, <<"Error: Could not retrieve current display settings.">>)
                  /\ retval' = FALSE
                  /\ pc' = "done"
                  /\ UNCHANGED devmode
             ELSE /\ devmode' = SetFields(ans.mode, CrWidth, CrHeight)
                  /\ pc' = "cr_validate"
                  /\ UNCHANGED <<out, retval>>
    /\ UNCHANGED <<enumTable, listVars, display_names, identVars, uiVars,
                   mainVars, crArgs, prompts, playVars>>

\* change_resolution: ChangeDisplaySettingsExW(..., CDS_TEST, None)
CrValidate ==
    /\ pc = "cr_validate"
    /\ \E result \in ResultCodes :
          /\ calls' = Append(calls, [fn |-> "change_resolution", api |-> "ChangeDisplaySettingsExW",
                                     dev |-> CrDevice, flags |-> CDS_TEST,
                                     mode |-> devmode, ret |-> result])
          /\ IF ValidateOk(result)
             THEN /\ pc' = "cr_apply"
                  /\ UNCHANGED <<out, retval>>
             ELSE /\ out' = Append(out, <<"Error: Resolution ", CrWidth, "x", CrHeight,
                                          " is not supported.">>)
                  /\ retval' = FALSE
                  /\ pc' = "done"
    /\ UNCHANGED <<enumTable, listVars, display_names, identVars, uiVars,
                   mainVars, devmode, crArgs, prompts, playVars>>

\* change_resolution: ChangeDisplaySettingsExW(..., 0, None)
CrApply ==
    /\ pc = "cr_apply"
    /\ \E result \in ResultCodes :
          /\ calls' = Append(calls, [fn |-> "change_resolution", api |-> "ChangeDisplaySettingsExW",
                                     dev |-> CrDevice, flags |-> 0,
                                     mode |-> devmode, ret |-> result])
          /\ IF ApplyOk(result)
             THEN /\ out' = Append(out, <<"Resolution changed to ", CrWidth, "x", CrHeight,
                                          " successfully.">>)
                  /\ retval' = TRUE
             ELSE /\ out' = Append(out, <<"Error: Failed to change resolution. Error code: ",
                                          result>>)
                  /\ retval' = FALSE
    /\ pc' = "done"
    /\ UNCHANGED <<enumTable, listVars, display_names, identVars, uiVars,
                   mainVars, devmode, crArgs, prompts, playVars>>

(* --------------------------- play_video.py ---------------------------- *)

\* vlc.State
VlcStates ==
    {"NothingSpecial", "Opening", "Buffering", "Playing", "Paused", "Stopped", "Ended", "Error"}

\* Command lines the script may be started with
VideoPaths == {"a.mp4", "missing.mp4"}

DeviceArgs == {"\\\\.\\DISPLAY1", "\\\\.\\DISPLAY2", "DISPLAY2"}

ArgvChoices ==
    {<<"play_video.py">>}
    \cup {<<"play_video.py", v>> : v \in VideoPaths}
    \cup {<<"play_video.py", v, d>> : v \in VideoPaths, d \in DeviceArgs}

\* play_video.py has not been started
PlayIdle ==
    /\ ppc = "not_run"
    /\ argv = <<>>
    /\ video_path = None
    /\ device_arg = None
    /\ device_name = None
    /\ instanceArgs = None
    /\ playerCalls = <<>>
    /\ playerState = "NothingSpecial"
    /\ state = None
    /\ polled = {}

\* State of play_video.py before its first statement
InitPlay ==
    /\ ppc = "main"
    /\ argv \in ArgvChoices
    /\ video_path = None
    /\ device_arg = None
    /\ device_name = None
    /\ instanceArgs = None
    /\ playerCalls = <<>>
    /\ playerState = "NothingSpecial"
    /\ state = None
    /\ polled = {}

\* change-disp-res.py has not been started
DispIdle ==
    /\ enumTable = [k \in 1..MaxDevices |-> [ok |-> FALSE, StateFlags |-> 0]]
    /\ pc = "not_run"
    /\ index = 0
    /\ devices = <<>>
    /\ enumQueries = <<>>
    /\ display_names = <<>>
    /\ i = 0
    /\ monitors = <<>>
    /\ threadPc = "none"
    /\ dpiAwareness = 0
    /\ rootAlive = FALSE
    /\ windows = <<>>
    /\ timerArmed = FALSE
    /\ timerFired = FALSE
    /\ choice = Unbound
    /\ selected_device = None
    /\ desired_width = Unbound
    /\ desired_height = Unbound
    /\ devmode = ZeroMode
    /\ crArgs = <<>>
    /\ retval = None
    /\ calls = <<>>
    /\ prompts = <<>>
    /\ out = <<>>

\* device_name = r"DISPLAY2": the value device_name holds in the body of
\* play_video, whatever the caller passed
BodyDeviceName(passed) == "DISPLAY2"

\* __main__: the usage check and the call play_video(video, device), whose
\* body starts by overwriting device_name
PlayMain ==
    /\ ppc = "main"
    /\ IF Len(argv) < 2
       THEN /\ out' = out \o <<<<"Usage: python play_video.py <video_path> [device_name]">>,
                               <<"  device_name: e.g. \\\\.\\DISPLAY1 (default), \\\\.\\DISPLAY2">>>>
            /\ ppc' = "exit1"
            /\ UNCHANGED <<video_path, device_arg, device_name>>
       ELSE /\ video_path' = argv[2]
            /\ device_arg' = IF Len(argv) >= 3 THEN argv[3] ELSE "\\\\.\\DISPLAY1"
            /\ device_name' = BodyDeviceName(IF Len(argv) >= 3 THEN argv[3] ELSE "\\\\.\\DISPLAY1")
            /\ ppc' = "instance"
            /\ UNCHANGED out
    /\ UNCHANGED <<enumTable, pc, listVars, display_names, identVars, uiVars,
                   mainVars, crVars, calls, prompts,
                   argv, instanceArgs, playerCalls, playerState, state, polled>>

\* instance = vlc.Instance(...); player = ...; media = instance.media_new(video_path)
PlayInstance ==
    /\ ppc = "instance"
    /\ instanceArgs' = "--qt-fullscreen-screennumber=5"
    /\ ppc' = "set_media"
    /\ UNCHANGED <<dispVars, argv, video_path, device_arg, device_name,
                   playerCalls, playerState, state, polled>>

\* player.set_media(media)
PlaySetMedia ==
    /\ ppc = "set_media"
    /\ playerCalls' = Append(playerCalls, <<"set_media", video_path>>)
    /\ ppc' = "set_fullscreen"
    /\ UNCHANGED <<dispVars, argv, video_path, device_arg, device_name,
                   instanceArgs, playerState, state, polled>>

\* player.set_fullscreen(True)
PlaySetFullscreen ==
    /\ ppc = "set_fullscreen"
    /\ playerCalls' = Append(playerCalls, <<"set_fullscreen", TRUE>>)
    /\ ppc' = "play"
    /\ UNCHANGED <<dispVars, argv, video_path, device_arg, device_name,
                   instanceArgs, playerState, state, polled>>

\* player.play()
PlayPlay ==
    /\ ppc = "play"
    /\ playerCalls' = Append(playerCalls, <<"play">>)
    /\ ppc' = "poll"
    /\ UNCHANGED <<dispVars, argv, video_path, device_arg, device_name,
                   instanceArgs, playerState, state, polled>>

\* A bug: only the end of the media ends the loop
IsTerminalEndedOnly(st) == st = "Ended"

\* state in (vlc.State.Ended, vlc.State.Error)
IsTerminal(st) == st \in {"Ended", "Error"}

\* One iteration of the polling loop: state = player.get_state(); break?
Poll ==
    /\ ppc = "poll"
    /\ state' = playerState
    /\ polled' = polled \cup {playerState}
    /\ ppc' = IF IsTerminal(playerState) THEN "done" ELSE "poll"
    /\ UNCHANGED <<dispVars, argv, video_path, device_arg, device_name,
                   instanceArgs, playerCalls, playerState>>

\* VLC: the player changes state on its own threads once play() was called
PlayerChange ==
    /\ ppc = "poll"
    /\ \E st \in VlcStates \ {playerState} : playerState' = st
    /\ UNCHANGED <<dispVars, ppc, argv, video_path, device_arg, device_name,
                   instanceArgs, playerCalls, state, polled>>

(* --------------------------- specifications --------------------------- *)

Init == InitDisp /\ PlayIdle

Next ==
    \/ Start
    \/ ListStep
    \/ MainCheck
    \/ AskIdentify
    \/ IdentifyQuery
    \/ IdentifyStart
    \/ ThreadInit
    \/ CreateWindow
    \/ ArmTimer
    \/ TimerFire
    \/ CloseWindow
    \/ CloseRoot
    \/ Join
    \/ AfterIdentify
    \/ Select
    \/ AskWidth
    \/ AskHeight
    \/ CrQuery
    \/ CrValidate
    \/ CrApply

\* change-disp-res.py run from its first statement
Spec == Init /\ [][Next]_vars

PlayInit == DispIdle /\ InitPlay

\* The statements of play_video.py
PlayProgram ==
    \/ PlayMain
    \/ PlayInstance
    \/ PlaySetMedia
    \/ PlaySetFullscreen
    \/ PlayPlay
    \/ Poll

PlayNext == PlayProgram \/ PlayerChange

\* play_video.py run from its first statement; the interpreter keeps
\* executing the script's next statement
PlaySpec == PlayInit /\ [][PlayNext]_vars /\ WF_vars(PlayProgram)

(* ------------------------------ claims -------------------------------- *)

IsCrCall(c) == c.fn = "change_resolution"

IsIdCall(c) == c.fn = "identify_displays"

Succeeded(c) == c.ret = TRUE

\* The display-mode API calls change_resolution has made, in order
CrCalls == SelectSeq(calls, IsCrCall)

\* The mode queries identify_displays has made, in order
IdCalls == SelectSeq(calls, IsIdCall)

\* The last line printed
LastOut == out[Len(out)]

\* C1: change_resolution calls the OS in the order mode query, validate-only
\* request (CDS_TEST), apply request, each at most once, and issues a later
\* call only if the earlier one succeeded: no validate or apply after a
\* failed query, no apply after a validate that did not return
\* DISP_CHANGE_SUCCESSFUL.
C1_CallOrder ==
    /\ Len(CrCalls) <= 3
    /\ Len(CrCalls) >= 1 => CrCalls[1].api = "EnumDisplaySettingsW"
    /\ Len(CrCalls) >= 2 =>
          /\ CrCalls[1].ret = TRUE
          /\ CrCalls[2].api = "ChangeDisplaySettingsExW"
          /\ CrCalls[2].flags = 2
    /\ Len(CrCalls) >= 3 =>
          /\ CrCalls[2].ret = 0
          /\ CrCalls[3].api = "ChangeDisplaySettingsExW"
          /\ CrCalls[3].flags = 0
    /\ (pc = "done" /\ crArgs # <<>> /\ Len(CrCalls) < 3) =>
          \/ Len(CrCalls) = 1 /\ CrCalls[1].ret = FALSE
          \/ Len(CrCalls) = 2 /\ CrCalls[2].ret # 0

\* C1 witness: change_resolution has returned after a rejected validate-only
\* request, having made two calls
C1_Witness ==
    /\ pc = "done"
    /\ Len(CrCalls) = 2
    /\ CrCalls[2].ret = 1

\* C2: change_resolution returns True exactly when query, validate and apply
\* all succeed and False otherwise; the three failures print distinct
\* messages, and a rejected apply prints the very code the platform returned.
C2_ReturnAndReport ==
    (pc = "done" /\ crArgs # <<>>) =>
       /\ retval \in BOOLEAN
       /\ retval = TRUE <=>
             /\ Len(CrCalls) = 3
             /\ CrCalls[1].ret = TRUE
             /\ CrCalls[2].ret = 0
             /\ CrCalls[3].ret = 0
       /\ retval = TRUE =>
             LastOut = <<"Resolution changed to ", crArgs[1].width, "x", crArgs[1].height,
                         " successfully.">>
       /\ (Len(CrCalls) = 1 /\ retval = FALSE) =>
             LastOut = <<"Error: Could not retrieve current display settings.">>
       /\ (Len(CrCalls) = 2 /\ retval = FALSE) =>
             LastOut = <<"Error: Resolution ", crArgs[1].width, "x", crArgs[1].height,
                         " is not supported.">>
       /\ (Len(CrCalls) = 3 /\ retval = FALSE) =>
             LastOut = <<"Error: Failed to change resolution. Error code: ", CrCalls[3].ret>>

\* C2 witness: validate succeeded, apply was rejected with code -2
C2_Witness ==
    /\ pc = "done"
    /\ Len(CrCalls) = 3
    /\ CrCalls[3].ret = 0 - 2
    /\ retval = FALSE

OtherModeFields == {"dmPositionX", "dmPositionY", "dmBitsPerPel", "dmDisplayFrequency"}

\* C3 as stated: the structure passed to validate and apply differs from the
\* queried one only in width and height; every other field, dmFields
\* included, is as queried.
C3_OnlyWidthHeightChanged ==
    \A k \in 2..Len(CrCalls) :
        \A f \in OtherModeFields \cup {"dmFields"} : CrCalls[k].mode[f] = CrCalls[1].mode[f]

\* C3 as amended: the structure passed to validate and apply carries the
\* requested width and height, has dmFields = DM_PELSWIDTH | DM_PELSHEIGHT
\* (0x180000) whatever the query reported, and every other field as queried.
C3_OnlySizeAndFieldsChanged ==
    \A k \in 2..Len(CrCalls) :
        /\ \A f \in OtherModeFields : CrCalls[k].mode[f] = CrCalls[1].mode[f]
        /\ CrCalls[k].mode.dmFields = 1572864
        /\ CrCalls[k].mode.dmPelsWidth = crArgs[1].width
        /\ CrCalls[k].mode.dmPelsHeight = crArgs[1].height

\* C3 witness: the apply request was made, with a dmFields other than the
\* queried one and a position and frequency that are not the zero defaults
C3_Witness ==
    /\ Len(CrCalls) = 3
    /\ CrCalls[3].mode.dmFields # CrCalls[1].mode.dmFields
    /\ CrCalls[3].mode.dmPositionX = 0 - 1921
    /\ CrCalls[3].mode.dmDisplayFrequency = 75

\* The first index at which the enumeration API fails
FirstFailure ==
    CHOOSE f \in 0..Len(enumTable) :
        /\ f = Len(enumTable) \/ ~enumTable[f + 1].ok
        /\ \A j \in 1..f : enumTable[j].ok

\* C4: list_displays queries indices 0,1,2,... in order (inactive devices
\* advance the index too), stops at the first failed query, and returns
\* exactly the names of the active entries before that failure, in index
\* order; an immediate failure gives the empty list.
C4_ListDisplays ==
    /\ \A k \in 1..Len(enumQueries) : enumQueries[k] = k - 1
    /\ Len(enumQueries) <= FirstFailure + 1
    /\ pc \notin {"start", "list_displays"} =>
          /\ Len(enumQueries) = FirstFailure + 1
          /\ \A k \in 1..Len(display_names) :
                /\ display_names[k][1] = "DISPLAY"
                /\ display_names[k][2] \in 1..FirstFailure
                /\ enumTable[display_names[k][2]].StateFlags % 2 = 1
          /\ \A k \in 1..(Len(display_names) - 1) :
                display_names[k][2] < display_names[k + 1][2]
          /\ \A j \in 1..FirstFailure :
                enumTable[j].StateFlags % 2 = 1 =>
                   \E k \in 1..Len(display_names) : display_names[k][2] = j
          /\ FirstFailure = 0 => display_names = <<>>

\* C4 witness: an inactive device, then an active one with further flags
\* set, then the failed query; one name returned
C4_Witness ==
    /\ pc = "main_check"
    /\ enumTable[1].ok /\ enumTable[1].StateFlags = 0
    /\ enumTable[2].ok /\ enumTable[2].StateFlags = 5
    /\ ~enumTable[3].ok
    /\ display_names = <<DeviceName(1)>>
    /\ enumQueries = <<0, 1, 2>>

SomeWindowClosed == \E k \in 1..Len(windows) : ~windows[k].alive

SomeWindowOpen == \E k \in 1..Len(windows) : windows[k].alive

\* C5: once the overlay thread is started the caller stays in join() until
\* the thread has exited; the UI loop ends only through the timer; no marker
\* is closed before the timer fires; markers and root are all destroyed
\* inside the one callback, so the caller never sees a partial teardown.
C5_JoinAndTeardown ==
    /\ (threadPc # "none" /\ pc # "join") =>
          /\ threadPc = "exited"
          /\ ~SomeWindowOpen
          /\ ~rootAlive
    /\ (threadPc = "exited" \/ SomeWindowClosed \/ (threadPc # "none" /\ threadPc # "started" /\ ~rootAlive)) =>
          timerFired
    /\ (SomeWindowClosed /\ (SomeWindowOpen \/ rootAlive)) =>
          (threadPc = "close_all" /\ pc = "join")
    /\ timerFired => timerArmed

\* C5 witness: the caller is past identify_displays after two markers were
\* shown and torn down
C5_Witness ==
    /\ pc = "select"
    /\ threadPc = "exited"
    /\ Len(windows) >= 2
    /\ timerFired

\* C6: play_video targets the display its caller names: in the body of
\* play_video the device_name in use is the caller-supplied argument (from
\* the command line, \\.\DISPLAY1 when absent); no hardcoded value replaces it.
C6_TargetIsCallerArgument ==
    ppc \in {"instance", "set_media", "set_fullscreen", "play", "poll", "done"} =>
       /\ device_arg = (IF Len(argv) >= 3 THEN argv[3] ELSE "\\\\.\\DISPLAY1")
       /\ device_name = device_arg

\* The player calls play_video makes before it starts polling
SetupCalls == <<<<"set_media", video_path>>, <<"set_fullscreen", TRUE>>, <<"play">>>>

\* C7: play_video binds the media, enables full-screen and starts playback,
\* in that order, before its first poll; it returns exactly when a poll
\* observes Ended or Error, never while only other statuses were observed;
\* and if the player eventually stays in Ended or Error, play_video
\* eventually returns.
C7_PollUntilTerminal ==
    /\ [](polled # {} => playerCalls = SetupCalls)
    /\ [](ppc \in {"poll", "done"} => playerCalls = SetupCalls)
    /\ [](ppc = "done" <=> polled \cap {"Ended", "Error"} # {})
    /\ [](ppc = "done" => state \in {"Ended", "Error"})
    /\ [](ppc = "poll" => state \in {None} \cup (polled \ {"Ended", "Error"}))
    /\ (<>[](playerState \in {"Ended", "Error"}) => <>(ppc = "done"))

\* C7 witness: play_video has returned on Error after polls that observed
\* two other statuses
C7_Witness ==
    /\ ppc = "done"
    /\ state = "Error"
    /\ {"Playing", "Paused"} \subseteq polled

InRange(k) == 1 <= k /\ k <= Len(display_names)

WidthHeightPrompts == {<<"Enter desired width: ">>, <<"Enter desired height: ">>}

NoSizePrompt == \A k \in 1..Len(prompts) : prompts[k] \notin WidthHeightPrompts

\* What C8 says of the calls of change_resolution and of the empty list
C8_Common ==
    /\ Len(crArgs) <= 1
    /\ crArgs # <<>> =>
          /\ display_names # <<>>
          /\ choice # Unbound
          /\ InRange(choice[1])
          /\ crArgs[1].device_name = display_names[choice[1]]
          /\ desired_width = <<crArgs[1].width>>
          /\ desired_height = <<crArgs[1].height>>
    /\ CrCalls # <<>> => crArgs # <<>>
    /\ (display_names = <<>> /\ pc \notin {"start", "list_displays", "main_check"}) =>
          /\ pc = "done"
          /\ LastOut = <<"No active displays found.">>
          /\ prompts = <<>>
          /\ calls = <<>>

\* C8 as stated: change_resolution is invoked at most once, only for a
\* non-empty list and a selection 1 <= k <= n, with the k-th identifier and
\* the entered width and height; an empty list gives "No active displays
\* found." and no prompt; an out-of-range k gives "Invalid selection.", no
\* width/height prompt and no display-mode call.
C8_MainFlow ==
    /\ C8_Common
    /\ (choice # Unbound /\ ~InRange(choice[1])) =>
          /\ pc = "done"
          /\ LastOut = <<"Invalid selection.">>
          /\ NoSizePrompt
          /\ crArgs = <<>>
          /\ calls = <<>>

\* C8 as amended: as stated, except that after an out-of-range k the only
\* display-mode calls made are the mode queries of identify_displays, made
\* before the selection when the user asked for the identification: no
\* call of change_resolution and no ChangeDisplaySettingsExW.
C8_MainFlowAmended ==
    /\ C8_Common
    /\ (choice # Unbound /\ ~InRange(choice[1])) =>
          /\ pc = "done"
          /\ LastOut = <<"Invalid selection.">>
          /\ NoSizePrompt
          /\ crArgs = <<>>
          /\ \A k \in 1..Len(calls) :
                /\ calls[k].fn = "identify_displays"
                /\ calls[k].api = "EnumDisplaySettingsW"

\* C8 witness: change_resolution runs for the second of two enumerated
\* displays, which is not the device at enumeration index 1
C8_Witness ==
    /\ pc = "cr_query"
    /\ choice = <<2>>
    /\ Len(display_names) = 2
    /\ crArgs = <<[width |-> 1280, height |-> 720, device_name |-> DeviceName(2)]>>

\* The positions, in the list given to identify_displays, of the displays
\* whose mode query succeeded
RECURSIVE SucceededOrdinals(_)
SucceededOrdinals(n) ==
    IF n = 0 THEN <<>>
    ELSE SucceededOrdinals(n - 1) \o (IF IdCalls[n].ret = TRUE THEN <<n>> ELSE <<>>)

ShownModes == SelectSeq(IdCalls, Succeeded)

\* C10: each marker is 300x300 with top-left (X + (W-300)//2,
\* Y + (H-300)//2), // being floor division, also for negative origins and
\* monitors smaller than the marker; 1920x1080 at (0,0) gives (810, 390).
C10_MarkerGeometry ==
    \A k \in 1..Len(windows) :
        LET m  == ShownModes[k].mode
            tl == WinTopLeft(windows[k])
            dx == tl[1] - m.dmPositionX
            dy == tl[2] - m.dmPositionY
        IN  /\ WinSize(windows[k]) = <<300, 300>>
            /\ 2 * dx <= m.dmPelsWidth - 300
            /\ m.dmPelsWidth - 300 < 2 * dx + 2
            /\ 2 * dy <= m.dmPelsHeight - 300
            /\ m.dmPelsHeight - 300 < 2 * dy + 2
            /\ (m.dmPositionX = 0 /\ m.dmPositionY = 0 /\ m.dmPelsWidth = 1920
                  /\ m.dmPelsHeight = 1080) => tl = <<810, 390>>

\* C10 witness: a marker for the 201x101 monitor at (-1921, -7), placed at
\* (-1971, -107), and one for the 1920x1080 monitor at the origin
C10_Witness ==
    /\ Len(windows) = 2
    /\ ShownModes[1].mode.dmPelsWidth = 201
    /\ WinTopLeft(windows[1]) = <<0 - 1971, 0 - 107>>
    /\ WinTopLeft(windows[2]) = <<810, 390>>

=============================================================================
